---- MODULE Spec2Model ----
(***************************************************************************)
(* Model of src/vimeo_cleaner.py: VimeoManager.process_videos and the      *)
(* calls it makes (_get_videos, _get_download_link, download_video,        *)
(* delete_video), together with the two things they act on: the remote     *)
(* catalog and the local download directory.                               *)
(***************************************************************************)
EXTENDS Integers, Sequences, FiniteSets, TLC

(* ---------------------------- bounds ----------------------------------- *)
\* largest remote catalog drawn by Init
MaxItems == 3
\* PER_PAGE the run is configured with (line 28 reads it from the environment)
PerPage == 2
\* number of chunks iter_content yields for one video body
NumChunks == 2
\* longest display name drawn for the catalogs of InitFields
MaxNameLen == 3

(* ----------------------- program constants ----------------------------- *)
\* MAX_RETRIES default, line 29; Retry(total=self.max_retries), line 52
MaxRetries == 3
\* process_videos(year=2022), lines 129 and 173
Year == 2022

\* status_forcelist of the Retry object, line 54
StatusForcelist == {429, 500, 502, 503, 504}

(* ------------------------- listing items ------------------------------- *)
\* created_time values as the API sends them: date, time and zone suffix
T2022End   == [y |-> 2022, mo |-> 12, d |-> 31, h |-> 23, mi |-> 59, s |-> 59, tz |-> "Z"]
T2021End   == [y |-> 2021, mo |-> 12, d |-> 31, h |-> 23, mi |-> 59, s |-> 59, tz |-> "Z"]
T2023Start == [y |-> 2023, mo |-> 1,  d |-> 1,  h |-> 0,  mi |-> 0,  s |-> 0,  tz |-> "Z"]
TMalformed == [y |-> 2022, mo |-> 13, d |-> 1,  h |-> 0,  mi |-> 0,  s |-> 0,  tz |-> "Z"]

StrName(chars) == [kind |-> "str", chars |-> chars]
NullName       == [kind |-> "null", chars |-> <<>>]
AbsentName     == [kind |-> "absent", chars |-> <<>>]
Created(t)     == [kind |-> "str", t |-> t]
AbsentCreated  == [kind |-> "absent", t |-> T2022End]
OneLink        == [key |-> TRUE, links |-> <<"https">>]
NoLinks        == [key |-> TRUE, links |-> <<>>]
AbsentDownload == [key |-> FALSE, links |-> <<>>]

\* The shapes of listing entries the catalogs of Init are built from.
Kinds ==
  << [uriKey |-> TRUE,  name |-> StrName(<<"a", "/", "b">>), created |-> Created(T2022End),   download |-> OneLink],
     [uriKey |-> TRUE,  name |-> StrName(<<"a", "_", "b">>), created |-> Created(T2022End),   download |-> OneLink],
     [uriKey |-> TRUE,  name |-> StrName(<<"c">>),           created |-> Created(T2023Start), download |-> OneLink],
     [uriKey |-> TRUE,  name |-> StrName(<<"c">>),           created |-> Created(T2022End),   download |-> NoLinks],
     [uriKey |-> TRUE,  name |-> StrName(<<"c">>),           created |-> Created(TMalformed), download |-> OneLink],
     [uriKey |-> FALSE, name |-> StrName(<<"c">>),           created |-> Created(T2022End),   download |-> OneLink],
     [uriKey |-> TRUE,  name |-> NullName,                   created |-> Created(T2022End),   download |-> OneLink],
     [uriKey |-> TRUE,  name |-> StrName(<<"c">>),           created |-> AbsentCreated,       download |-> OneLink] >>

MkItem(id, k) ==
  [id |-> id, uriKey |-> k.uriKey, name |-> k.name, created |-> k.created, download |-> k.download]

\* The characters display names are drawn from: a path separator and a
\* character that is none.
Alphabet == <<"a", "/">>

RECURSIVE Pow(_, _)
Pow(b, n) == IF n = 0 THEN 1 ELSE b * Pow(b, n - 1)

\* the number of strings over Alphabet that are shorter than len
RECURSIVE Shorter(_)
Shorter(len) == IF len = 0 THEN 0 ELSE Shorter(len - 1) + Pow(Len(Alphabet), len - 1)

\* the n-th string over Alphabet, counted from 0 and the shortest first
NameAt(n) ==
  LET len == CHOOSE l \in 0..MaxNameLen : Shorter(l) <= n /\ n < Shorter(l + 1)
      j   == n - Shorter(len)
  IN [i \in 1..len |-> Alphabet[((j \div Pow(Len(Alphabet), i - 1)) % Len(Alphabet)) + 1]]

\* The values of the four fields process_videos reads from a listing entry
\* (lines 142, 146, 147 and 80): every name of up to MaxNameLen characters, the
\* empty one included, no name and a null name; the instants around the target
\* year, a malformed one and none; a link, an empty download list and none.
NameValues ==
  [n \in 1..Shorter(MaxNameLen + 1) |-> StrName(NameAt(n - 1))] \o <<AbsentName, NullName>>
CreatedValues ==
  <<Created(T2022End), Created(T2021End), Created(T2023Start), Created(TMalformed), AbsentCreated>>
DownloadValues == <<OneLink, NoLinks, AbsentDownload>>
UriValues == <<TRUE, FALSE>>

\* every combination of these field values
FieldKinds ==
  [j \in 1..(Len(NameValues) * Len(CreatedValues) * Len(DownloadValues) * Len(UriValues)) |->
     LET n == (j - 1) % Len(NameValues)
         c == ((j - 1) \div Len(NameValues)) % Len(CreatedValues)
         d == ((j - 1) \div (Len(NameValues) * Len(CreatedValues))) % Len(DownloadValues)
         u == (j - 1) \div (Len(NameValues) * Len(CreatedValues) * Len(DownloadValues))
     IN [uriKey |-> UriValues[u + 1], name |-> NameValues[n + 1],
         created |-> CreatedValues[c + 1], download |-> DownloadValues[d + 1]]]

AllKinds == Kinds \o FieldKinds

\* The state keeps a listing entry as its id and its index in AllKinds; Entry
\* is the entry in full.
Entry(e) == MkItem(e.id, AllKinds[e.kind])

(* ------------------------- pure helpers -------------------------------- *)
\* str.replace(old, new) on a one-character pattern, line 147
Replace(chars, old, new) ==
  [i \in 1..Len(chars) |-> IF chars[i] = old THEN new ELSE chars[i]]

Unnamed == <<"u", "n", "n", "a", "m", "e", "d">>

DaysIn(mo, y) ==
  IF mo \in {4, 6, 9, 11} THEN 30
  ELSE IF mo = 2 THEN (IF (y % 4 = 0 /\ y % 100 # 0) \/ y % 400 = 0 THEN 29 ELSE 28)
  ELSE 31

\* datetime.fromisoformat(video['created_time'].replace('Z', '+00:00')), line 142:
\* KeyError when the key is absent, ValueError when the text is no ISO instant.
ParseCreated(video) ==
  IF video.created.kind = "absent" THEN [ok |-> FALSE, year |-> 0]
  ELSE LET t  == video.created.t
           tz == IF t.tz = "Z" THEN "+00:00" ELSE t.tz
           valid == /\ t.mo \in 1..12
                    /\ t.d \in 1..DaysIn(t.mo, t.y)
                    /\ t.h \in 0..23 /\ t.mi \in 0..59 /\ t.s \in 0..59
                    /\ tz = "+00:00"
       IN IF valid THEN [ok |-> TRUE, year |-> t.y] ELSE [ok |-> FALSE, year |-> 0]

\* a plausible slip: replace('/', '_', 1), which replaces the first '/' only
VideoNameFirstOnly(video) ==
  LET first(chars) == [i \in 1..Len(chars) |->
                         IF chars[i] = "/" /\ \A j \in 1..(i - 1) : chars[j] # "/"
                         THEN "_" ELSE chars[i]]
  IN IF video.name.kind = "absent" THEN [ok |-> TRUE, stem |-> first(Unnamed)]
     ELSE IF video.name.kind = "str" THEN [ok |-> TRUE, stem |-> first(video.name.chars)]
     ELSE [ok |-> FALSE, stem |-> <<>>]

\* video.get('name', 'unnamed').replace('/', '_'), line 147: the default is
\* used only when the key is absent; a value that is no string has no replace.
VideoName(video) ==
  IF video.name.kind = "absent" THEN [ok |-> TRUE, stem |-> Replace(Unnamed, "/", "_")]
  ELSE IF video.name.kind = "str" THEN [ok |-> TRUE, stem |-> Replace(video.name.chars, "/", "_")]
  ELSE [ok |-> FALSE, stem |-> <<>>]

\* _get_download_link, lines 77-83: video['download'][0]['link'], None on
\* KeyError / IndexError.
GetDownloadLink(video) ==
  IF video.download.key /\ Len(video.download.links) >= 1
  THEN [some |-> TRUE, link |-> video.download.links[1]]
  ELSE [some |-> FALSE, link |-> ""]

\* self.download_dir, line 27 (the default), and the extension of line 87
DownloadDir == <<"d", "o", "w", "n", "l", "o", "a", "d", "s">>
Extension == <<".", "m", "p", "4">>

\* os.path.join(a, b) where '/' separates: b alone when b is absolute
PathJoin(a, b) ==
  IF Len(b) > 0 /\ b[1] = "/" THEN b
  ELSE IF Len(a) = 0 \/ a[Len(a)] = "/" THEN a \o b
  ELSE a \o <<"/">> \o b

\* file_path of line 87
FilePath(stem) == PathJoin(DownloadDir, stem \o Extension)

\* The target path Init may draw an already existing file for
PreExisting == <<"a", "_", "b">>

\* Every target path (file name stem inside download_dir) a run can touch.
Stems == {VideoName(MkItem(0, Kinds[k])).stem : k \in {j \in 1..Len(Kinds) : VideoName(MkItem(0, Kinds[j])).ok}}


(* --------------------------- the transport ----------------------------- *)
\* What the download host does with one GET: it answers 503 n503 times and
\* then answers final. n503 is none, the whole retry budget, or one more.
ServerScripts == [n503 : {0, MaxRetries, MaxRetries + 1}, final : {200, 404}]

ServerAnswer(script, attempt) == IF attempt <= script.n503 THEN 503 ELSE script.final

\* session.get through the HTTPAdapter mounted with Retry(total=max_retries,
\* status_forcelist=...), lines 51-56 and 94: a status of the forcelist is
\* retried while the retry budget lasts; with the budget spent the adapter
\* raises (RetryError) instead of returning the response.
RECURSIVE Urlopen(_, _, _)
Urlopen(script, total, attempt) ==
  LET status == ServerAnswer(script, attempt) IN
  IF status \in StatusForcelist
  THEN IF total - 1 < 0
       THEN [raised |-> TRUE, status |-> status, attempts |-> attempt]
       ELSE Urlopen(script, total - 1, attempt + 1)
  ELSE [raised |-> FALSE, status |-> status, attempts |-> attempt]

\* a plausible slip: the first attempt is counted as a retry
SessionGetOneRetryLess(script) == Urlopen(script, MaxRetries - 1, 1)

SessionGet(script) == Urlopen(script, MaxRetries, 1)

\* response.raise_for_status(), line 95
RaisesForStatus(status) == status >= 400

\* What the API does with one DELETE: a status, or a transport error.
DeleteResponses ==
  {[err |-> FALSE, status |-> s] : s \in {204, 200, 404}} \cup {[err |-> TRUE, status |-> 0]}

\* a plausible slip: any success status counts (response.ok)
DeleteVideoResultAny2xx(resp) == IF resp.err THEN FALSE ELSE resp.status \in 200..299

\* delete_video, lines 116-127
DeleteVideoResult(resp) == IF resp.err THEN FALSE ELSE resp.status = 204

(* ------------------------------ state ---------------------------------- *)
VARIABLES
  catalog,    \* the account's videos on the remote side, ascending by date
  fs,         \* download_dir: file name stem -> NoFile or the file's content
  pc,         \* where process_videos stands
  page,       \* line 131
  processed,  \* line 132
  errors,     \* line 133
  videos,     \* the page being processed, line 136
  idx,        \* position of the for loop of line 140 in videos
  cur,        \* the running download_video call: its video, its file_path and, once
              \* it has returned, the chunks it wrote
  ret,        \* what download_video returned, once it has
  lastGet,    \* what session.get did for the running download_video call
  del,        \* the DELETE of the running delete_video call and what the call returned
  initial,    \* the remote catalog as it was when the run started
  trace,      \* the calls made and the items finished so far, in order
  summary     \* the final statistics line 168 logs, once it has

vars == <<catalog, fs, pc, page, processed, errors, videos, idx, cur, ret, lastGet, del, initial, trace, summary>>

NoFile  == [owner |-> -1, written |-> 0]
\* a complete file whose content is no video of the catalog (owner 0)
ForeignFile == [owner |-> 0, written |-> NumChunks]
File(owner, written) == [owner |-> owner, written |-> written]
Exists(stem) == fs[stem] # NoFile

NoCur == [id |-> 0, stem |-> <<>>, chunks |-> 0]
NoDel == [called |-> FALSE, err |-> FALSE, status |-> 0, ret |-> FALSE]
NoGet == [called |-> FALSE, script |-> [n503 |-> 0, final |-> 200], raised |-> FALSE, status |-> 0, attempts |-> 0]

\* The entries of trace: a call with what it returned (op "list", "download",
\* "delete"), or the end of one video's pass through the loop body (op "item").
\* ids are the videos a listing returned, net says how far a download's
\* transfer went.
ListEv(r, ids)               == [op |-> "list", page |-> page, ret |-> r, ids |-> ids]
DownloadEv(id, stem, net, r) == [op |-> "download", id |-> id, stem |-> stem, net |-> net, ret |-> r]
DeleteEv(id, stem, r)        == [op |-> "delete", id |-> id, stem |-> stem, ret |-> r]
ItemEv(id, r)                == [op |-> "item", id |-> id, page |-> page, ret |-> r]

\* _get_videos, lines 59-75, against the live catalog: per_page items from
\* offset (page-1)*per_page, [] beyond the end, None on any error.
PageOf(cat, p) ==
  LET lo == (p - 1) * PerPage + 1
      hi == IF p * PerPage < Len(cat) THEN p * PerPage ELSE Len(cat)
  IN IF lo > Len(cat) THEN <<>> ELSE SubSeq(cat, lo, hi)

GetVideos(cat, p, apiOk) ==
  IF apiOk THEN [none |-> FALSE, data |-> PageOf(cat, p)] ELSE [none |-> TRUE, data |-> <<>>]

\* the remote catalog after a DELETE the API answered with resp
RemoteAfterDelete(cat, id, resp) ==
  IF ~resp.err /\ resp.status = 204
  THEN SelectSeq(cat, LAMBDA v : v.id # id)
  ELSE cat

\* the listing is sorted by date ascending (sort=date, direction=asc)
SortedByDate(cat) ==
  \A i, j \in 1..Len(cat) :
    (i < j /\ ParseCreated(Entry(cat[i])).ok /\ ParseCreated(Entry(cat[j])).ok)
      => ParseCreated(Entry(cat[i])).year <= ParseCreated(Entry(cat[j])).year

\* the target paths of the videos of a catalog
StemsOf(cat) ==
  {VideoName(Entry(cat[i])).stem : i \in {j \in 1..Len(cat) : VideoName(Entry(cat[j])).ok}}

\* process_videos is entered, lines 131-133
Start ==
  /\ pc = "fetch"
  /\ page = 1
  /\ processed = 0
  /\ errors = 0
  /\ videos = <<>>
  /\ idx = 1
  /\ cur = NoCur
  /\ ret = "none"
  /\ lastGet = NoGet
  /\ del = NoDel
  /\ initial = catalog
  /\ trace = <<>>
  /\ summary = <<>>

\* Catalogs of up to MaxItems videos of the shapes of Kinds, and a download
\* directory that is empty or holds a file at PreExisting.
Init ==
  /\ \E n \in 0..MaxItems : \E f \in [1..n -> 1..Len(Kinds)] :
       /\ catalog = [i \in 1..n |-> [id |-> i, kind |-> f[i]]]
       /\ SortedByDate(catalog)
  /\ \E pre \in {{}, {PreExisting}} :
       fs = [s \in Stems |-> IF s \in pre THEN ForeignFile ELSE NoFile]
  /\ Start

\* Catalogs of one video with any combination of field values, alone or
\* followed by a video that is downloaded to PreExisting.
InitFields ==
  /\ \E k \in (Len(Kinds) + 1)..Len(AllKinds) : \E followed \in BOOLEAN :
       /\ catalog = IF followed
                    THEN <<[id |-> 1, kind |-> k], [id |-> 2, kind |-> 1]>>
                    ELSE <<[id |-> 1, kind |-> k]>>
       /\ SortedByDate(catalog)
  /\ \E pre \in {{}, {PreExisting}} :
       fs = [s \in StemsOf(catalog) \cup {PreExisting} |-> IF s \in pre THEN ForeignFile ELSE NoFile]
  /\ Start

(* ----------------------------- actions --------------------------------- *)
video == Entry(videos[idx])

\* a plausible slip: the video without a link is logged but not counted
ErrorOutcomesWithoutNoLink == {"exception", "dlfail", "dlraise", "delfail"}

\* a plausible slip: the failed delete is logged but not counted
ErrorOutcomesWithoutDelete == {"nolink", "exception", "dlfail", "dlraise"}

\* the outcomes of a pass that count as an error (lines 151, 158, 160, 164)
ErrorOutcomes == {"nolink", "exception", "dlfail", "dlraise", "delfail"}
\* the outcomes that are exceptions caught at line 162
Exceptions == {"exception", "dlraise"}

\* a plausible slip: the failed delete is tried again on the same video
NextPositionRetriesDelete(outcome) ==
  IF outcome = "delfail"
  THEN [idx |-> idx, videos |-> videos, page |-> page, pc |-> "item"]
  ELSE IF idx < Len(videos)
  THEN [idx |-> idx + 1, videos |-> videos, page |-> page, pc |-> "item"]
  ELSE [idx |-> 1, videos |-> <<>>, page |-> page + 1, pc |-> "fetch"]

\* a plausible slip: the try of line 141 wraps the for loop, not its body
NextPositionAbortsPage(outcome) ==
  IF idx < Len(videos) /\ outcome \notin Exceptions
  THEN [idx |-> idx + 1, videos |-> videos, page |-> page, pc |-> "item"]
  ELSE [idx |-> 1, videos |-> <<>>, page |-> page + 1, pc |-> "fetch"]

\* a plausible slip: page is incremented twice (in the loop and after it)
NextPositionSkipsPage(outcome) ==
  IF idx < Len(videos)
  THEN [idx |-> idx + 1, videos |-> videos, page |-> page, pc |-> "item"]
  ELSE [idx |-> 1, videos |-> <<>>, page |-> page + 2, pc |-> "fetch"]

\* Where the loops stand after one pass through the body of the for loop,
\* however it ended (continue, fall through, or the handler of line 162): at
\* the next video of the page, or after the last one at page += 1 (line 166)
\* and the next listing.
NextPosition(outcome) ==
  IF idx < Len(videos)
  THEN [idx |-> idx + 1, videos |-> videos, page |-> page, pc |-> "item"]
  ELSE [idx |-> 1, videos |-> <<>>, page |-> page + 1, pc |-> "fetch"]

\* The end of one pass through the body of the for loop of line 140, with the
\* counter the pass increments (lines 151, 156, 158, 160, 164).
FinishItem(outcome, tr) ==
  /\ trace' = Append(tr, ItemEv(video.id, outcome))
  /\ processed' = IF outcome = "processed" THEN processed + 1 ELSE processed
  /\ errors' = IF outcome \in ErrorOutcomes THEN errors + 1 ELSE errors
  /\ idx' = NextPosition(outcome).idx
  /\ videos' = NextPosition(outcome).videos
  /\ page' = NextPosition(outcome).page
  /\ pc' = NextPosition(outcome).pc
  /\ cur' = NoCur
  /\ ret' = "none"
  /\ lastGet' = NoGet
  /\ del' = NoDel
  /\ UNCHANGED <<summary, initial>>

\* a plausible slip: a short page is taken for the last one and not processed
StopOnShortPage(r) == r.none \/ Len(r.data) < PerPage

\* a plausible slip: only the empty list ends the loop, None is iterated
StopOnlyOnEmptyList(r) == ~r.none /\ Len(r.data) = 0

\* if not videos: break, line 137 (None and [] are both falsy)
StopListing(r) == r.none \/ Len(r.data) = 0

Ids(data) == [i \in 1..Len(data) |-> data[i].id]

\* while True: videos = self._get_videos(page); if not videos: break
\* (lines 135-138), and after the loop the statistics of line 168.  Iterating
\* None would raise out of process_videos (line 174 logs it); iterating an
\* empty list would go on to page += 1.
ListPage(apiOk) ==
  /\ pc = "fetch"
  /\ LET r == GetVideos(catalog, page, apiOk)
     IN /\ trace' = Append(trace, ListEv(IF r.none THEN "none" ELSE IF Len(r.data) = 0 THEN "empty" ELSE "items",
                                         Ids(r.data)))
        /\ IF StopListing(r)
           THEN /\ pc' = "done"
                /\ summary' = <<processed, errors>>
                /\ UNCHANGED <<videos, idx, page>>
           ELSE IF r.none
           THEN /\ pc' = "crashed"
                /\ UNCHANGED <<videos, idx, page, summary>>
           ELSE IF Len(r.data) = 0
           THEN /\ pc' = "fetch"
                /\ page' = page + 1
                /\ UNCHANGED <<videos, idx, summary>>
           ELSE /\ pc' = "item"
                /\ videos' = r.data
                /\ idx' = 1
                /\ UNCHANGED <<page, summary>>
  /\ UNCHANGED <<catalog, fs, processed, errors, cur, ret, lastGet, del, initial>>

\* the listing call answers
ListPageOk == ListPage(TRUE)
\* the listing call fails (transport error, or raise_for_status of line 71)
ListPageError == ListPage(FALSE)

\* a plausible slip: the download link is looked up before the year is tested
ClassifyLinkFirst(v) ==
  IF ~GetDownloadLink(v).some THEN "nolink"
  ELSE IF ~ParseCreated(v).ok THEN "exception"
  ELSE IF ParseCreated(v).year # Year THEN "skipped"
  ELSE IF ~v.uriKey THEN "exception"
  ELSE IF ~VideoName(v).ok THEN "exception"
  ELSE "download"

\* a plausible slip: the video without a link is passed over without errors += 1
ClassifyMissingLinkSkipped(v) ==
  IF ~ParseCreated(v).ok THEN "exception"
  ELSE IF ParseCreated(v).year # Year THEN "skipped"
  ELSE IF ~v.uriKey THEN "exception"
  ELSE IF ~VideoName(v).ok THEN "exception"
  ELSE IF ~GetDownloadLink(v).some THEN "skipped"
  ELSE "download"

\* What lines 142-152 make of one video before any download:
\* "exception" (caught at line 162), "skipped" (line 144), "nolink" (line 150)
\* or "download".
Classify(v) ==
  IF ~ParseCreated(v).ok THEN "exception"
  ELSE IF ParseCreated(v).year # Year THEN "skipped"
  ELSE IF ~v.uriKey THEN "exception"
  ELSE IF ~VideoName(v).ok THEN "exception"
  ELSE IF ~GetDownloadLink(v).some THEN "nolink"
  ELSE "download"

\* Lines 142-152 for a video that is not downloaded.
PassItem ==
  /\ pc = "item"
  /\ Classify(video) # "download"
  /\ FinishItem(Classify(video), trace)
  /\ UNCHANGED <<catalog, fs>>

\* a plausible slip: no skip rule, every call transfers
SkipRuleNever(stem) == FALSE

\* The skip rule of download_video, line 89
SkipRule(stem) == Exists(stem)

\* a plausible slip: the handler does not remove the file
AfterFailureKeepsFile(stem) == fs

\* The file system after the handler of lines 110-114 ran
AfterFailure(stem) == IF Exists(stem) THEN [fs EXCEPT ![stem] = NoFile] ELSE fs

\* Lines 142-154 for a video that is downloaded and whose file exists:
\* download_video returns True at once, lines 89-91.
DownloadSkipped ==
  /\ pc = "item"
  /\ Classify(video) = "download"
  /\ LET stem == VideoName(video).stem
     IN /\ SkipRule(stem)
        /\ cur' = [id |-> video.id, stem |-> stem, chunks |-> 0]
        /\ ret' = "true"
        /\ pc' = "dlret"
        /\ trace' = Append(trace, DownloadEv(video.id, stem, "none", "true"))
  /\ UNCHANGED <<catalog, fs, page, processed, errors, videos, idx, lastGet, summary, del, initial>>

\* Lines 142-154 for a video that is downloaded and whose file does not exist,
\* up to the point where the connection has failed and download_video returned
\* False (lines 94-95, 110-114) or the file has been opened (line 98).
StartDownload(script) ==
  /\ pc = "item"
  /\ Classify(video) = "download"
  /\ LET stem == VideoName(video).stem
         get  == SessionGet(script)
     IN /\ ~SkipRule(stem)
        /\ cur' = [id |-> video.id, stem |-> stem, chunks |-> 0]
        /\ lastGet' = [called |-> TRUE, script |-> script, raised |-> get.raised,
                       status |-> get.status, attempts |-> get.attempts]
        /\ IF get.raised \/ RaisesForStatus(get.status)
           THEN /\ ret' = "false"
                /\ pc' = "dlret"
                /\ fs' = AfterFailure(stem)
                /\ trace' = Append(trace, DownloadEv(video.id, stem, "refused", "false"))
           ELSE /\ ret' = "none"
                /\ pc' = "stream"
                /\ fs' = [fs EXCEPT ![stem] = File(video.id, 0)]
                /\ trace' = trace
  /\ UNCHANGED <<catalog, page, processed, errors, videos, idx, summary, del, initial>>

\* One non-empty chunk of iter_content written, lines 105-107
WriteChunk ==
  /\ pc = "stream"
  /\ fs[cur.stem].written < NumChunks
  /\ fs' = [fs EXCEPT ![cur.stem].written = @ + 1]
  /\ UNCHANGED <<catalog, pc, page, processed, errors, videos, idx, cur, ret, lastGet, trace, summary, del, initial>>

\* The stream ends; the with blocks close and download_video returns True, line 109
StreamEnd ==
  /\ pc = "stream"
  /\ fs[cur.stem].written = NumChunks
  /\ ret' = "true"
  /\ pc' = "dlret"
  /\ trace' = Append(trace, DownloadEv(cur.id, cur.stem, "full", "true"))
  /\ cur' = [cur EXCEPT !.chunks = fs[cur.stem].written]
  /\ UNCHANGED <<catalog, fs, page, processed, errors, videos, idx, lastGet, summary, del, initial>>

\* An exception while streaming; the handler of lines 110-114 removes the file
\* and download_video returns False.
StreamFail ==
  /\ pc = "stream"
  /\ fs' = AfterFailure(cur.stem)
  /\ ret' = "false"
  /\ pc' = "dlret"
  /\ trace' = Append(trace, DownloadEv(cur.id, cur.stem, "partial", "false"))
  /\ cur' = [cur EXCEPT !.chunks = fs[cur.stem].written]
  /\ UNCHANGED <<catalog, page, processed, errors, videos, idx, lastGet, summary, del, initial>>

\* An exception while streaming, and os.remove of line 113 raises in turn: the
\* error leaves download_video and is caught at line 162.
StreamFailRemoveRaises ==
  /\ pc = "stream"
  /\ FinishItem("dlraise", Append(trace, DownloadEv(cur.id, cur.stem, "partial", "raise")))
  /\ UNCHANGED <<catalog, fs>>

\* a plausible slip: the delete is not gated on the download's result
DeleteGateAlways(r) == r \in {"true", "false"}

\* Whether line 155 is reached: download_video returned True, line 154
DeleteGate(r) == r = "true"

\* download_video returned False: errors += 1, lines 154, 159-160
DownloadFailed ==
  /\ pc = "dlret"
  /\ ~DeleteGate(ret)
  /\ FinishItem("dlfail", trace)
  /\ UNCHANGED <<catalog, fs>>

\* download_video returned True: self.delete_video(video_uri), lines 155 and
\* 116-127. The API answers the DELETE with resp, or the request fails.
DeleteVideo(resp) ==
  /\ pc = "dlret"
  /\ DeleteGate(ret)
  /\ catalog' = RemoteAfterDelete(catalog, video.id, resp)
  /\ del' = [called |-> TRUE, err |-> resp.err, status |-> resp.status, ret |-> DeleteVideoResult(resp)]
  /\ trace' = Append(trace, DeleteEv(video.id, cur.stem,
                                     IF DeleteVideoResult(resp) THEN "true" ELSE "false"))
  /\ pc' = "delret"
  /\ UNCHANGED <<fs, page, processed, errors, videos, idx, cur, ret, lastGet, initial, summary>>

\* delete_video has returned: the counter its result selects, lines 155-158
DeleteReturned ==
  /\ pc = "delret"
  /\ FinishItem(IF del.ret THEN "processed" ELSE "delfail", trace)
  /\ UNCHANGED <<catalog, fs>>

\* The process may be killed in any state: a behaviour of Spec may stop
\* anywhere, and the state it stops in is what the killed run leaves behind.
Next ==
  \/ ListPageOk
  \/ ListPageError
  \/ PassItem
  \/ DownloadSkipped
  \/ \E script \in ServerScripts : StartDownload(script)
  \/ WriteChunk
  \/ StreamEnd
  \/ StreamFail
  \/ StreamFailRemoveRaises
  \/ DownloadFailed
  \/ \E resp \in DeleteResponses : DeleteVideo(resp)
  \/ DeleteReturned

Spec == Init /\ [][Next]_vars

\* process_videos is one sequential loop and every call it makes returns: while
\* a step is possible, a step is taken.
FairSpec == Spec /\ WF_vars(Next)

\* the same program started on the catalogs of InitFields
SpecFields == InitFields /\ [][Next]_vars


(* ------------------------------ claims --------------------------------- *)
Calls(op) == {i \in 1..Len(trace) : trace[i].op = op}
Complete(stem, id) == fs[stem] = File(id, NumChunks)
\* a download call in which bytes of the body went over the network
Transferred(e) == e.net \in {"partial", "full"}

\* C1: delete_video is called for a video if and only if a download_video call
\* for the same video returned True before it in the same run: every delete
\* call directly follows a download call of its video that returned True, and
\* every download call that returned True is directly followed by the delete
\* call of its video (the one exception being the state in which
\* download_video has just returned and line 155 is the next thing to run).
C1_DeleteIffDownloadSucceeded ==
  /\ \A i \in Calls("delete") :
       /\ i > 1
       /\ trace[i - 1].op = "download"
       /\ trace[i - 1].id = trace[i].id
       /\ trace[i - 1].ret = "true"
  /\ \A j \in Calls("download") :
       trace[j].ret = "true" =>
         IF j = Len(trace)
         THEN pc = "dlret" /\ cur.id = trace[j].id
         ELSE trace[j + 1].op = "delete" /\ trace[j + 1].id = trace[j].id

\* A finished run in which one video was downloaded and deleted and another
\* video's download failed.
C1_Witness ==
  /\ pc = "done"
  /\ Calls("delete") # {}
  /\ \E j \in Calls("download") : trace[j].ret = "false"

\* C2: whenever delete_video has been called for a video, a completely written
\* file holding that video's own content is at its target path.
C2_DeleteOnlyWithOwnLocalCopy ==
  \A i \in Calls("delete") : Complete(trace[i].stem, trace[i].id)

\* C3: when download_video returns False, no file is at the target path.
C3_NoFileAfterFailedDownload ==
  (pc = "dlret" /\ ret = "false") => ~Exists(cur.stem)

\* download_video has returned False after a failure in mid-stream, with at
\* least one chunk written before it.
C3_Witness ==
  /\ pc = "dlret"
  /\ ret = "false"
  /\ cur.chunks >= 1
  /\ trace[Len(trace)].op = "download"
  /\ trace[Len(trace)].net = "partial"

\* C4: in every reachable state, the state a killed process leaves behind
\* included, the file at a target path is absent or completely written.
C4_NoTornFile ==
  \A s \in Stems : fs[s] = NoFile \/ fs[s].written = NumChunks

\* C5 as stated: of two download_video calls with the same target path, at
\* most one performs a network transfer.
C5_TransferAtMostOnce ==
  \A i, j \in Calls("download") :
    (i < j /\ trace[i].stem = trace[j].stem) => ~(Transferred(trace[i]) /\ Transferred(trace[j]))

\* C5 as amended: of two download_video calls with the same target path, at
\* most one completes a network transfer; when the first returned True the
\* second returns True without a transfer; a call that makes no transfer
\* returns True.
C5_SkipAfterSuccess ==
  \A i, j \in Calls("download") :
    (i < j /\ trace[i].stem = trace[j].stem) =>
      /\ ~(trace[i].net = "full" /\ trace[j].net = "full")
      /\ trace[i].ret = "true" => (trace[j].net = "none" /\ trace[j].ret = "true")
      /\ trace[j].net = "none" => trace[j].ret = "true"

\* Two calls with one target path: the first transferred the body and returned
\* True, the second returned True without a transfer.
C5_Witness ==
  \E i, j \in Calls("download") :
    /\ i < j
    /\ trace[i].stem = trace[j].stem
    /\ trace[i].net = "full" /\ trace[i].ret = "true"
    /\ trace[j].net = "none" /\ trace[j].ret = "true"

\* C6: a download whose connection answers 503 exactly max_retries times and
\* then 200 connects on attempt max_retries + 1, and once its stream has ended
\* it has returned True with the file written; a download whose connection
\* answers 503 max_retries + 1 times has returned False, once, after
\* max_retries + 1 attempts, with no file at the target path.
C6_RetryBound ==
  lastGet.called =>
    /\ (lastGet.script.n503 = MaxRetries /\ lastGet.script.final = 200) =>
         /\ ~lastGet.raised
         /\ lastGet.attempts = MaxRetries + 1
         /\ pc \in {"stream", "dlret", "delret"}
         /\ pc = "stream" => Exists(cur.stem)
         /\ (pc = "dlret" /\ trace[Len(trace)].net = "full") =>
              (ret = "true" /\ Complete(cur.stem, cur.id))
    /\ lastGet.script.n503 = MaxRetries + 1 =>
         /\ lastGet.raised
         /\ lastGet.attempts = MaxRetries + 1
         /\ pc = "dlret"
         /\ ret = "false"
         /\ ~Exists(cur.stem)
         /\ trace[Len(trace)].op = "download"
         /\ trace[Len(trace)].id = cur.id
         /\ trace[Len(trace)].ret = "false"
         /\ Len(trace) > 1 => trace[Len(trace) - 1].op # "download"

\* The connection answered 503 max_retries times, then 200, and download_video
\* has returned True.
C6_Witness ==
  /\ lastGet.called
  /\ lastGet.script.n503 = MaxRetries
  /\ lastGet.script.final = 200
  /\ pc = "dlret"
  /\ ret = "true"
  /\ Complete(cur.stem, cur.id)


Lists == SelectSeq(trace, LAMBDA e : e.op = "list")
Items == SelectSeq(trace, LAMBDA e : e.op = "item")
LastEv == trace[Len(trace)]

\* the videos the first k listings returned, each with its page, in order
RECURSIVE Listed(_)
Listed(k) ==
  IF k = 0 THEN <<>>
  ELSE Listed(k - 1) \o [i \in 1..Len(Lists[k].ids) |-> <<Lists[k].ids[i], Lists[k].page>>]

\* The run made its listings for pages 1, 2, ... in order, all but the last
\* returned videos, the videos processed are exactly those the listings before
\* the last one returned, in that order, and the counters count them.
ProcessedAllButLastListing ==
  /\ Len(Lists) >= 1
  /\ \A p \in 1..Len(Lists) : Lists[p].page = p
  /\ \A p \in 1..(Len(Lists) - 1) : Lists[p].ret = "items"
  /\ page = Len(Lists)
  /\ [i \in 1..Len(Items) |-> <<Items[i].id, Items[i].page>>] = Listed(Len(Lists) - 1)
  /\ processed = Cardinality({i \in 1..Len(Items) : Items[i].ret = "processed"})
  /\ errors = Cardinality({i \in 1..Len(Items) : Items[i].ret \in ErrorOutcomes})

\* C7: a run whose listings did not fail is done only after a listing that
\* returned nothing; that listing, of page k, is the last request, pages 1..k
\* were requested in order, exactly the videos of pages 1..k-1 were processed
\* and the final counters count exactly those.
C7_PaginationTermination ==
  (pc = "done" /\ LastEv.ret # "none") =>
    /\ LastEv.op = "list"
    /\ LastEv.ret = "empty"
    /\ ProcessedAllButLastListing
    /\ summary = <<processed, errors>>
    /\ ~ENABLED Next

\* The spec's case: page 3 is the first empty one, pages 1 and 2 were processed.
C7_Witness ==
  /\ pc = "done"
  /\ LastEv.ret = "empty"
  /\ Len(Lists) = 3
  /\ Len(Items) = MaxItems
  /\ processed + errors >= 1

\* C8: a listing that fails ends the run like an empty page: it is the last
\* call of the run, no video of its page or of a later page is processed, the
\* counters are those of the pages before it and the final statistics are
\* emitted with them.
C8_ListingFailureEndsRun ==
  \A l \in Calls("list") :
    trace[l].ret = "none" =>
      /\ l = Len(trace)
      /\ pc = "done"
      /\ ProcessedAllButLastListing
      /\ summary = <<processed, errors>>
      /\ ~ENABLED Next

\* The listing of page 2 failed after page 1 was processed.
C8_Witness ==
  /\ pc = "done"
  /\ LastEv.ret = "none"
  /\ Len(Lists) = 2
  /\ Len(Items) = PerPage
  /\ processed >= 1

\* position in trace of the listing that returned the video whose pass ends at i
ListingOf(i) ==
  LET before == {l \in Calls("list") : l < i} IN CHOOSE l \in before : \A m \in before : m <= l
\* position of that video in its page
PlaceOf(i) == Cardinality({m \in Calls("item") : ListingOf(i) < m /\ m <= i})

\* C9: an exception while one video is processed is caught at that video: it
\* adds exactly 1 to errors, no delete is called for the video, the run does
\* not crash, and the run goes on with the next video of the page or, after
\* the last video of the page, with the listing of the next page.
C9_PerItemIsolation ==
  /\ pc # "crashed"
  /\ errors = Cardinality({i \in Calls("item") : trace[i].ret \in ErrorOutcomes})
  /\ \A i \in Calls("item") :
       trace[i].ret \in Exceptions =>
         LET l == trace[ListingOf(i)]
             k == PlaceOf(i)
         IN /\ \A d \in Calls("delete") : trace[d].id # trace[i].id
            /\ l.ids[k] = trace[i].id
            /\ IF k < Len(l.ids)
               THEN IF i < Len(trace)
                    THEN trace[i + 1].op \in {"item", "download"} /\ trace[i + 1].id = l.ids[k + 1]
                    ELSE pc \in {"item", "stream"} /\ idx = k + 1 /\ video.id = l.ids[k + 1]
               ELSE IF i < Len(trace)
                    THEN trace[i + 1].op = "list" /\ trace[i + 1].page = trace[i].page + 1
                    ELSE pc = "fetch" /\ page = trace[i].page + 1

\* A finished run in which a video raised, a later video of the same page was
\* downloaded and deleted, and the next page was requested.
C9_Witness ==
  /\ pc = "done"
  /\ \E i, j \in Calls("item") :
       /\ i < j
       /\ trace[i].ret \in Exceptions
       /\ trace[j].page = trace[i].page
       /\ trace[j].ret = "processed"

\* C10: no video is passed to delete_video twice in one run, no video is
\* downloaded twice, and in a finished run every video whose download returned
\* True has exactly one delete call, whether that call succeeded or failed.
C10_DeleteExactlyOnce ==
  /\ \A i, j \in Calls("delete") : trace[i].id = trace[j].id => i = j
  /\ \A i, j \in Calls("download") : trace[i].id = trace[j].id => i = j
  /\ pc = "done" =>
       \A d \in Calls("download") :
         trace[d].ret = "true" =>
           Cardinality({i \in Calls("delete") : trace[i].id = trace[d].id}) = 1

\* A finished run with a delete that failed and a delete that succeeded.
C10_Witness ==
  /\ pc = "done"
  /\ \E i, j \in Calls("delete") : trace[i].ret = "false" /\ trace[j].ret = "true"

\* C11: delete_video returns True if and only if the API answered the DELETE
\* with status 204; any other status and any transport error make it return
\* False, and no exception leaves it: the video's pass ends as "processed" or
\* as "delfail", the outcomes of lines 156 and 158, never in the handler of
\* line 162.
C11_DeleteTrueIff204 ==
  /\ del.called <=> pc = "delret"
  /\ del.called =>
       /\ del.ret <=> (~del.err /\ del.status = 204)
       /\ trace[Len(trace)] = DeleteEv(video.id, cur.stem, IF del.ret THEN "true" ELSE "false")
  /\ \A i \in Calls("delete") :
       IF i = Len(trace)
       THEN pc = "delret"
       ELSE /\ trace[i + 1].op = "item"
            /\ trace[i + 1].id = trace[i].id
            /\ trace[i + 1].ret = (IF trace[i].ret = "true" THEN "processed" ELSE "delfail")

\* delete_video has just returned False on a 200 answer, after a call earlier
\* in the run that returned True.
C11_Witness ==
  /\ pc = "delret"
  /\ ~del.err /\ del.status = 200 /\ ~del.ret
  /\ \E i \in Calls("delete") : i < Len(trace) /\ trace[i].ret = "true"

\* One walk along trace from position i, with the pages requested so far and
\* the videos of the last listing whose pass has not ended (queue): whether
\* every listing is of the next page and comes when no video is left, every
\* download and delete call is of the first video left, and every pass that
\* ends is the first video's; and the videos left at the end of trace.
RECURSIVE Walk(_, _, _)
Walk(i, pages, queue) ==
  IF i > Len(trace) THEN [ok |-> TRUE, queue |-> queue]
  ELSE LET e == trace[i] IN
       IF e.op = "list"
       THEN IF queue = <<>> /\ e.page = pages + 1
            THEN Walk(i + 1, pages + 1, e.ids)
            ELSE [ok |-> FALSE, queue |-> queue]
       ELSE IF queue # <<>> /\ e.id = Head(queue) /\ (e.op = "item" => e.page = pages)
            THEN Walk(i + 1, pages, IF e.op = "item" THEN Tail(queue) ELSE queue)
            ELSE [ok |-> FALSE, queue |-> queue]

\* C12: the pages are requested in the order 1, 2, 3, ... with none skipped
\* and none repeated; the videos of a page are processed in the order the
\* listing returned them; every video of a page has finished its pass, its
\* download and its delete included, before the next page is requested; and
\* at most one download is in progress: the one of the video whose pass is
\* running.
C12_Ordering ==
  LET w == Walk(1, 0, <<>>) IN
  /\ w.ok
  /\ IF pc \in {"stream", "dlret", "delret"}
     THEN /\ w.queue # <<>>
          /\ cur.id = Head(w.queue)
          /\ cur.id = video.id
     ELSE cur = NoCur

\* A finished run that requested pages 1, 2 and 3, with a video on page 1
\* whose download returned True and a video downloaded and deleted on page 2.
C12_Witness ==
  /\ pc = "done"
  /\ Len(Lists) = 3
  /\ \E i, j \in 1..Len(Items) :
       /\ Items[i].page = 1 /\ Items[j].page = 2
       /\ Items[i].ret \in {"processed", "delfail"}
       /\ Items[j].ret = "processed"

\* the listing entry of the video with this id, as the run found it
Video(id) == Entry(initial[id])
\* the video has a well-formed creation instant outside the target year
OutOfRange(v) == ParseCreated(v).ok /\ ParseCreated(v).year # Year

\* C13: a video is handed to download_video only if the year of its creation
\* instant is the target year: one created at 2022-12-31T23:59:59Z is in
\* range for 2022, one created at 2023-01-01T00:00:00Z (or in 2021) is not. A
\* video of another year is skipped: no download call and no delete call is
\* made for it and its pass changes neither processed nor errors, whether or
\* not it has a download link.
C13_YearFilter ==
  /\ \A d \in Calls("download") \cup Calls("delete") :
       /\ ParseCreated(Video(trace[d].id)).ok
       /\ ParseCreated(Video(trace[d].id)).year = Year
  /\ \A i \in Calls("item") :
       /\ Video(trace[i].id).created \in {Created(T2023Start), Created(T2021End)}
            => trace[i].ret = "skipped"
       /\ Video(trace[i].id).created = Created(T2022End) => trace[i].ret # "skipped"
       /\ OutOfRange(Video(trace[i].id)) => trace[i].ret = "skipped"
  /\ processed + errors = Cardinality({i \in Calls("item") : ~OutOfRange(Video(trace[i].id))})

\* A finished run over a video of 2021-12-31T23:59:59Z that has no download
\* link, skipped, and a video of 2022-12-31T23:59:59Z, downloaded and deleted,
\* with no error counted.
C13_Witness ==
  /\ pc = "done"
  /\ Len(initial) = 2
  /\ Video(1).created = Created(T2021End)
  /\ ~GetDownloadLink(Video(1)).some
  /\ Video(2).created = Created(T2022End)
  /\ Len(Items) = 2
  /\ Items[1].ret = "skipped"
  /\ Items[2].ret = "processed"
  /\ processed = 1 /\ errors = 0

\* os.path.dirname: the path up to its last separator
DirName(path) ==
  LET seps == {i \in 1..Len(path) : path[i] = "/"}
      last == CHOOSE i \in seps : \A j \in seps : j <= i
  IN IF seps = {} THEN <<>> ELSE IF last = 1 THEN <<"/">> ELSE SubSeq(path, 1, last - 1)

\* C14: the file name stem download_video is called with is the video's
\* display name with every '/' replaced by '_' and every other character
\* kept (the stem of a video named a/b is a_b), so the stem holds no '/' and
\* the target path is a direct child of the download directory.
C14_NameSanitized ==
  \A d \in Calls("download") :
    LET name == Video(trace[d].id).name
        chars == IF name.kind = "absent" THEN Unnamed ELSE name.chars
        stem == trace[d].stem
    IN /\ name.kind \in {"str", "absent"}
       /\ Len(stem) = Len(chars)
       /\ \A i \in 1..Len(chars) : stem[i] = (IF chars[i] = "/" THEN "_" ELSE chars[i])
       /\ \A i \in 1..Len(stem) : stem[i] # "/"
       /\ name = StrName(<<"a", "/", "b">>) => stem = <<"a", "_", "b">>
       /\ DirName(FilePath(stem)) = DownloadDir
       /\ FilePath(stem) = DownloadDir \o <<"/">> \o stem \o Extension

\* A run that called download_video for a video named /a/ with the stem _a_
\* and for a video named a/b with the stem a_b.
C14_Witness ==
  \E d, e \in Calls("download") :
    /\ Video(trace[d].id).name = StrName(<<"/", "a", "/">>)
    /\ trace[d].stem = <<"_", "a", "_">>
    /\ Video(trace[e].id).name = StrName(<<"a", "/", "b">>)
    /\ trace[e].stem = <<"a", "_", "b">>

\* the video was created in the target year
InYear(v) == ParseCreated(v).ok /\ ParseCreated(v).year = Year
\* the video has no download-link entry: no download key, or an empty list
MissingLink(v) == ~v.download.key \/ Len(v.download.links) = 0

\* C15: the pass of a video of the target year that has no download-link
\* entry (the download key is absent or its list is empty) adds exactly 1 to
\* errors and leaves processed as it is, calls neither download_video nor
\* delete_video, leaves the remote catalog and the download directory as they
\* are, and the run goes on with the next video of the page or, after the
\* last one, with the next page.
C15_MissingLink ==
  [][(pc = "item" /\ InYear(video) /\ MissingLink(video)) =>
       /\ errors' = errors + 1
       /\ processed' = processed
       /\ Len(trace') = Len(trace) + 1
       /\ trace'[Len(trace')].op = "item"
       /\ trace'[Len(trace')].id = video.id
       /\ catalog' = catalog
       /\ fs' = fs
       /\ IF idx < Len(videos)
          THEN pc' = "item" /\ idx' = idx + 1 /\ videos' = videos /\ page' = page
          ELSE pc' = "fetch" /\ page' = page + 1]_vars

\* A finished run over a video of the target year without a download key,
\* counted as an error, and the video after it, downloaded and deleted.
C15_Witness ==
  /\ pc = "done"
  /\ Len(initial) = 2
  /\ InYear(Video(1)) /\ Video(1).download = AbsentDownload
  /\ Video(1).uriKey /\ Video(1).name.kind = "str"
  /\ Len(Items) = 2
  /\ Items[1].ret = "nolink"
  /\ Items[2].ret = "processed"
  /\ Cardinality(Calls("download")) = 1
  /\ processed = 1 /\ errors = 1

\* C16: when download_video has returned True and delete_video then returns
\* False, the delete call itself changes nothing locally and leaves the video
\* in the remote catalog, and the step after it adds exactly 1 to errors,
\* leaves processed as it is, leaves the local file at the target path in
\* place and unmodified, leaves the video in the remote catalog, and goes on
\* with the next video of the page or, after the last one, with the next page.
C16_DeleteFailureKeepsBoth ==
  [][/\ (pc = "dlret" /\ pc' = "delret" /\ ~del'.ret) =>
          /\ ret = "true"
          /\ Exists(cur.stem)
          /\ fs' = fs
          /\ catalog' = catalog
          /\ \E i \in 1..Len(catalog') : catalog'[i].id = video.id
          /\ processed' = processed /\ errors' = errors
     /\ (pc = "delret" /\ ~del.ret) =>
          /\ errors' = errors + 1
          /\ processed' = processed
          /\ Exists(cur.stem)
          /\ fs' = fs
          /\ catalog' = catalog
          /\ \E i \in 1..Len(catalog') : catalog'[i].id = video.id
          /\ IF idx < Len(videos)
             THEN pc' = "item" /\ idx' = idx + 1 /\ videos' = videos /\ page' = page
             ELSE pc' = "fetch" /\ page' = page + 1]_vars

\* A finished run in which a video's transfer completed, its delete failed,
\* its complete file is in the directory and the video is still in the remote
\* catalog, and the next video was then downloaded and deleted.
C16_Witness ==
  /\ pc = "done"
  /\ \E i, j \in 1..Len(Items) :
       /\ j = i + 1
       /\ Items[i].ret = "delfail"
       /\ Items[j].ret = "processed"
       /\ \E d \in Calls("download") :
            /\ trace[d].id = Items[i].id
            /\ trace[d].net = "full"
            /\ Complete(trace[d].stem, Items[i].id)
       /\ \E k \in 1..Len(catalog) : catalog[k].id = Items[i].id
  /\ errors = 1

\* the pass recorded at position i of trace is of a video whose delete call
\* returned True
Deleted(i) == \E d \in Calls("delete") : trace[d].id = trace[i].id /\ trace[d].ret = "true"

\* C17: processed and errors never decrease; the pass of a video changes
\* processed + errors by 0 when the video is out of range and by exactly 1
\* otherwise, and nothing else changes the counters; processed is the number
\* of finished passes of videos whose delete call returned True and errors
\* the number of finished passes of videos that are not out of range and did
\* not end in a delete that returned True; in a finished run these are the
\* statistics logged, and processed is the number of delete calls that
\* returned True.
C17_Accounting ==
  /\ [](/\ processed = Cardinality({i \in Calls("item") : Deleted(i)})
        /\ errors = Cardinality({i \in Calls("item") :
                                  ~OutOfRange(Video(trace[i].id)) /\ ~Deleted(i)})
        /\ pc = "done" =>
             /\ summary = <<processed, errors>>
             /\ processed = Cardinality({d \in Calls("delete") : trace[d].ret = "true"}))
  /\ [][/\ processed' >= processed
         /\ errors' >= errors
         /\ IF Len(trace') > Len(trace) /\ trace'[Len(trace')].op = "item"
            THEN (processed' + errors') - (processed + errors) =
                   (IF OutOfRange(Video(trace'[Len(trace')].id)) THEN 0 ELSE 1)
            ELSE processed' = processed /\ errors' = errors]_vars

\* A finished run with a video counted as an error for its missing link and,
\* after it, a video that was deleted.
C17_Witness ==
  /\ pc = "done"
  /\ processed = 1 /\ errors = 1
  /\ \E j, k \in Calls("item") :
       /\ k < j
       /\ trace[k].ret = "nolink"
       /\ Deleted(j)

\* C18: a video whose display name is the empty string is downloaded, like a
\* video with no name field, to the default placeholder: its file name stem
\* is unnamed and its target path {download_dir}/unnamed.mp4.
C18_EmptyNameGetsPlaceholder ==
  \A d \in Calls("download") :
    Video(trace[d].id).name \in {StrName(<<>>), AbsentName} =>
      /\ trace[d].stem = Unnamed
      /\ FilePath(trace[d].stem) = DownloadDir \o <<"/">> \o Unnamed \o Extension

\* C19: every run over a finite catalog, whatever the listing, download and
\* delete calls return, reaches the end of process_videos and logs the final
\* statistics.
C19_Termination == <>(pc = "done" /\ summary = <<processed, errors>>)

\* A finished run that requested three pages, the last one beyond the end of
\* the data.
C19_Witness ==
  /\ pc = "done"
  /\ summary = <<processed, errors>>
  /\ Len(Lists) = 3
  /\ Lists[3].ret = "empty"
  /\ Len(Items) = MaxItems

\* C20: in a finished run none of whose listing calls failed, every video
\* that was in the remote catalog when the run started, is of the target
\* year, is well formed and has a download link, was handed to
\* download_video exactly once, also when deletes earlier in the run removed
\* videos from the catalog the later pages are read from.
C20_EveryEligibleDownloaded ==
  (pc = "done" /\ \A l \in Calls("list") : trace[l].ret # "none") =>
    \A id \in 1..Len(initial) :
      Classify(Video(id)) = "download" =>
        Cardinality({d \in Calls("download") : trace[d].id = id}) = 1

====
